---- MODULE Spec2Model ----
(***************************************************************************)
(* Blogicum (blog/views.py, blog/urls.py): the views that read, create,    *)
(* edit and delete Posts, Comments and User profiles, modelled as a state  *)
(* machine over the database rows.  One action per view; a step is one     *)
(* HTTP request handled from dispatch() to the response.                   *)
(***************************************************************************)
EXTENDS Integers, Sequences, FiniteSets, TLC

\* posts     Post rows by primary key: author, is_published, category, pub_date
\* comments  Comment rows by primary key: post, author, text
\* users     User rows: username, first_name, last_name, email
\* seq       the last primary key handed out for each table (AutoField)
\* now       the clock the views read
\* request   the request handled last: view, method, request.user, URL kwargs
\* response  its response: status (with the redirect target) and listed rows
VARIABLES posts, comments, users, seq, now, request, response

vars == <<posts, comments, users, seq, now, request, response>>

(* ------------------------------ bounds --------------------------------- *)
MaxPosts == 2
MaxComments == 1
MaxTime == 1

(* --------------------------- value domains ----------------------------- *)
Anonymous == "anonymous"
Users == {"u1", "u2"}
Requesters == Users \cup {Anonymous}
Usernames == {"ann", "bob", "cat"}
Values == {"x", "y"}
Texts == {"a", "b"}
Methods == {"GET", "POST"}
PostKeys == 1..MaxPosts
CommentKeys == 1..MaxComments
Times == 0..MaxTime

(* blog.models.Category rows: slug and is_published.  Post.category is     *)
(* optional, NoCategory is its NULL.                                       *)
NoCategory == "none"
Categories == {"news", "draft"}
Slugs == Categories \cup {"nope"}
CategoryPublished(c) == c = "news"

PostData == [is_published : BOOLEAN, category : Categories \cup {NoCategory},
             pub_date : Times]
PostRows == [author : Users, is_published : BOOLEAN,
             category : Categories \cup {NoCategory}, pub_date : Times]
CommentRows == [post : PostKeys, author : Users, text : Texts]
UserData == [username : Usernames, first_name : Values, last_name : Values,
             email : Values]

(* ----------------------------- responses ------------------------------- *)
Ok == "200"
RedirectLogin == "302 login"
RedirectDetail == "302 post_detail"
RedirectProfile == "302 profile"
RedirectList == "302 post_list"
Forbidden == "403"
NotFound == "404"

Req(view, method, user, pk, comment_pk, name) ==
    [view |-> view, method |-> method, user |-> user, pk |-> pk,
     comment_pk |-> comment_pk, name |-> name]

Resp(status, body) == [status |-> status, body |-> body]

NoRequest == Req("none", "GET", Anonymous, 0, 0, "")
NoResponse == Resp("none", <<>>)

(* ------------------------------ helpers -------------------------------- *)
Range(s) == {s[i] : i \in DOMAIN s}

Without(f, k) == [x \in DOMAIN f \ {k} |-> f[x]]

With(f, k, v) == [x \in DOMAIN f \cup {k} |-> IF x = k THEN v ELSE f[x]]

(* django.contrib.auth: request.user.is_authenticated *)
IsAuthenticated(user) == user \in Users

(* get_object_or_404(User, username=...) *)
UserByUsername(name) == {u \in Users : users[u].username = name}

(* ------------------------- querysets (read side) ----------------------- *)
\* PostListView.get_queryset: .filter(pub_date__lt=now, is_published=True,
\* category__is_published=True).  The category lookup is an inner join, so
\* a row whose category is NULL never matches.
PostListFilter(p) ==
    /\ p.pub_date < now
    /\ p.is_published
    /\ p.category # NoCategory /\ CategoryPublished(p.category)

\* CategoryListView.get_queryset: .filter(category=self.category, ...)
CategoryListFilter(p, slug) ==
    /\ p.category = slug
    /\ p.pub_date < now
    /\ CategoryPublished(p.category)
    /\ p.is_published

\* ProfileView.get_queryset: .filter(author=self.author)
ProfileFilter(p, author) == p.author = author

\* .annotate(comment_count=Count("comment")) adds a column to each row and
\* neither drops nor reorders rows; the result is modelled by its row keys.
\* .order_by("-pub_date"): rows come back newest first; the query names no
\* second key, so the database may return rows of equal pub_date in any
\* order.  The set of all result sequences the query may produce.
OrderByPubDateDesc(S) ==
    {s \in [1..Cardinality(S) -> S] :
        /\ \A i, j \in 1..Cardinality(S) : i # j => s[i] # s[j]
        /\ \A i, j \in 1..Cardinality(S) :
              i < j => posts[s[i]].pub_date >= posts[s[j]].pub_date}

(* ------------------------- dispatch decisions -------------------------- *)
Pass == "pass"

\* LoginRequiredMixin.dispatch: handle_no_permission() redirects to login.
LoginRequired(user) == IF IsAuthenticated(user) THEN Pass ELSE RedirectLogin

\* PostDetailView.dispatch with the author comparison left out of the
\* is_published test.
PostDetailDispatchNoAuthor(user, pk) ==
    IF pk \notin DOMAIN posts THEN NotFound
    ELSE LET instance == posts[pk] IN
         IF \/ ~instance.is_published
            \/ (instance.author # user /\ instance.category # NoCategory
                  /\ ~CategoryPublished(instance.category))
            \/ (instance.author # user /\ instance.pub_date > now)
         THEN NotFound
         ELSE Ok

\* PostDetailView.dispatch
PostDetailDispatch(user, pk) ==
    IF pk \notin DOMAIN posts THEN NotFound
    ELSE LET instance == posts[pk] IN
         IF \/ (instance.author # user /\ ~instance.is_published)
            \/ (instance.author # user /\ instance.category # NoCategory
                  /\ ~CategoryPublished(instance.category))
            \/ (instance.author # user /\ instance.pub_date > now)
         THEN NotFound
         ELSE Ok

\* PostUpdateView.dispatch, then LoginRequiredMixin.dispatch (super)
PostUpdateDispatch(user, pk) ==
    IF pk \notin DOMAIN posts THEN NotFound
    ELSE IF posts[pk].author # user THEN RedirectDetail
    ELSE LoginRequired(user)

\* PostDeleteView without its own dispatch: LoginRequiredMixin alone.
PostDeleteDispatchNoOwner(user, pk) ==
    IF pk \notin DOMAIN posts THEN NotFound
    ELSE LoginRequired(user)

\* PostDeleteView.dispatch, then LoginRequiredMixin.dispatch (super)
PostDeleteDispatch(user, pk) ==
    IF pk \notin DOMAIN posts THEN NotFound
    ELSE IF posts[pk].author # user THEN Forbidden
    ELSE LoginRequired(user)

\* CommentCreateView.dispatch, then LoginRequiredMixin.dispatch (super)
CommentCreateDispatch(user, pk) ==
    IF pk \notin DOMAIN posts THEN NotFound
    ELSE LoginRequired(user)

\* CommentMixin.get_object looking the comment up by its pk alone.
CommentGetObjectByPk(comment_pk, post_pk) ==
    {c \in DOMAIN comments : c = comment_pk}

\* CommentMixin.get_object: get_object_or_404(Comment, pk=comment_pk,
\* post_id=post_pk); the set of matching rows (empty: Http404).
CommentGetObject(comment_pk, post_pk) ==
    {c \in DOMAIN comments : c = comment_pk /\ comments[c].post = post_pk}

\* CommentMixin.dispatch, then LoginRequiredMixin.dispatch (super)
CommentDispatch(user, post_pk, comment_pk) ==
    IF CommentGetObject(comment_pk, post_pk) = {} THEN NotFound
    ELSE IF comments[comment_pk].author # user THEN Forbidden
    ELSE LoginRequired(user)

\* CategoryListView.dispatch: get_object_or_404(Category, slug=...,
\* is_published=True)
CategoryDispatch(slug) ==
    IF slug \in Categories /\ CategoryPublished(slug) THEN Pass ELSE NotFound

\* ProfileUpdateView.dispatch: get_object_or_404(User, username=...), then
\* LoginRequiredMixin.dispatch (super).  The requester is not compared with
\* the user found.
ProfileUpdateDispatch(user, name) ==
    IF UserByUsername(name) = {} THEN NotFound
    ELSE LoginRequired(user)

\* Comment.post is a foreign key with on_delete=CASCADE.
Cascade(pk) == [c \in {k \in DOMAIN comments : comments[k].post # pk} |-> comments[c]]

(* ------------------------------ read views ----------------------------- *)
\* GET ''
PostListView(user) ==
    /\ request' = Req("post_list", "GET", user, 0, 0, "")
    /\ \E body \in OrderByPubDateDesc({p \in DOMAIN posts : PostListFilter(posts[p])}) :
          response' = Resp(Ok, body)
    /\ UNCHANGED <<posts, comments, users, seq, now>>

\* GET 'posts/<int:pk>/'
PostDetailView(user, pk) ==
    /\ request' = Req("post_detail", "GET", user, pk, 0, "")
    /\ response' = Resp(PostDetailDispatch(user, pk), <<>>)
    /\ UNCHANGED <<posts, comments, users, seq, now>>

\* GET 'category/<slug:category_slug>/'
CategoryListView(user, slug) ==
    /\ request' = Req("category_posts", "GET", user, 0, 0, slug)
    /\ IF CategoryDispatch(slug) # Pass
       THEN response' = Resp(CategoryDispatch(slug), <<>>)
       ELSE \E body \in OrderByPubDateDesc(
                    {p \in DOMAIN posts : CategoryListFilter(posts[p], slug)}) :
               response' = Resp(Ok, body)
    /\ UNCHANGED <<posts, comments, users, seq, now>>

\* GET 'profile/<str:username>/'
ProfileView(user, name) ==
    /\ request' = Req("profile", "GET", user, 0, 0, name)
    /\ IF UserByUsername(name) = {}
       THEN response' = Resp(NotFound, <<>>)
       ELSE \E author \in UserByUsername(name) :
            \E body \in OrderByPubDateDesc(
                    {p \in DOMAIN posts : ProfileFilter(posts[p], author)}) :
               response' = Resp(Ok, body)
    /\ UNCHANGED <<posts, comments, users, seq, now>>

(* ---------------------------- mutation views --------------------------- *)
\* 'posts/create/'
PostCreateView(user, method) ==
    /\ request' = Req("create_post", method, user, 0, 0, "")
    /\ IF LoginRequired(user) # Pass
       THEN /\ response' = Resp(LoginRequired(user), <<>>)
            /\ UNCHANGED <<posts, seq>>
       ELSE IF method = "GET"
       THEN /\ response' = Resp(Ok, <<>>)
            /\ UNCHANGED <<posts, seq>>
       ELSE \E data \in PostData :
            /\ seq.post < MaxPosts
            /\ posts' = With(posts, seq.post + 1,
                             [author |-> user, is_published |-> data.is_published,
                              category |-> data.category, pub_date |-> data.pub_date])
            /\ seq' = [seq EXCEPT !.post = seq.post + 1]
            /\ response' = Resp(RedirectProfile, <<>>)
    /\ UNCHANGED <<comments, users, now>>

\* 'posts/<int:pk>/edit/'
PostUpdateView(user, pk, method) ==
    /\ request' = Req("edit_post", method, user, pk, 0, "")
    /\ IF PostUpdateDispatch(user, pk) # Pass
       THEN /\ response' = Resp(PostUpdateDispatch(user, pk), <<>>)
            /\ UNCHANGED posts
       ELSE IF method = "GET"
       THEN /\ response' = Resp(Ok, <<>>)
            /\ UNCHANGED posts
       ELSE \E data \in PostData :
            /\ posts' = [posts EXCEPT ![pk] =
                             [author |-> user, is_published |-> data.is_published,
                              category |-> data.category, pub_date |-> data.pub_date]]
            /\ response' = Resp(RedirectDetail, <<>>)
    /\ UNCHANGED <<comments, users, seq, now>>

\* 'posts/<int:pk>/delete/'
\* POST deletes the row (DeleteView.delete); the rows that reference it go
\* with it.
PostDeleteView(user, pk, method) ==
    /\ request' = Req("delete_post", method, user, pk, 0, "")
    /\ IF PostDeleteDispatch(user, pk) # Pass
       THEN /\ response' = Resp(PostDeleteDispatch(user, pk), <<>>)
            /\ UNCHANGED <<posts, comments>>
       ELSE IF method = "GET"
       THEN /\ response' = Resp(Ok, <<>>)
            /\ UNCHANGED <<posts, comments>>
       ELSE /\ posts' = Without(posts, pk)
            /\ comments' = Cascade(pk)
            /\ response' = Resp(RedirectList, <<>>)
    /\ UNCHANGED <<users, seq, now>>

\* 'posts/<int:pk>/comment/'
CommentCreateView(user, pk, method) ==
    /\ request' = Req("add_comment", method, user, pk, 0, "")
    /\ IF CommentCreateDispatch(user, pk) # Pass
       THEN /\ response' = Resp(CommentCreateDispatch(user, pk), <<>>)
            /\ UNCHANGED <<comments, seq>>
       ELSE IF method = "GET"
       THEN /\ response' = Resp(Ok, <<>>)
            /\ UNCHANGED <<comments, seq>>
       ELSE \E text \in Texts :
            /\ seq.comment < MaxComments
            /\ comments' = With(comments, seq.comment + 1,
                                [post |-> pk, author |-> user, text |-> text])
            /\ seq' = [seq EXCEPT !.comment = seq.comment + 1]
            /\ response' = Resp(RedirectDetail, <<>>)
    /\ UNCHANGED <<posts, users, now>>

\* 'posts/<int:post_pk>/edit_comment/<int:comment_pk>.'
CommentUpdateView(user, post_pk, comment_pk, method) ==
    /\ request' = Req("edit_comment", method, user, post_pk, comment_pk, "")
    /\ IF CommentDispatch(user, post_pk, comment_pk) # Pass
       THEN /\ response' = Resp(CommentDispatch(user, post_pk, comment_pk), <<>>)
            /\ UNCHANGED comments
       ELSE IF method = "GET"
       THEN /\ response' = Resp(Ok, <<>>)
            /\ UNCHANGED comments
       ELSE \E text \in Texts :
            /\ comments' = [comments EXCEPT ![comment_pk].text = text]
            /\ response' = Resp(RedirectDetail, <<>>)
    /\ UNCHANGED <<posts, users, seq, now>>

\* 'posts/<int:post_pk>/delete_comment/<int:comment_pk>/'
CommentDeleteView(user, post_pk, comment_pk, method) ==
    /\ request' = Req("delete_comment", method, user, post_pk, comment_pk, "")
    /\ IF CommentDispatch(user, post_pk, comment_pk) # Pass
       THEN /\ response' = Resp(CommentDispatch(user, post_pk, comment_pk), <<>>)
            /\ UNCHANGED comments
       ELSE IF method = "GET"
       THEN /\ response' = Resp(Ok, <<>>)
            /\ UNCHANGED comments
       ELSE /\ comments' = Without(comments, comment_pk)
            /\ response' = Resp(RedirectDetail, <<>>)
    /\ UNCHANGED <<posts, users, seq, now>>

\* 'profile/edit_profile/<str:username>/'.  The ModelForm validates the
\* unique username before saving; an invalid form is rendered again.
ProfileUpdateView(user, name, method) ==
    /\ request' = Req("edit_profile", method, user, 0, 0, name)
    /\ IF ProfileUpdateDispatch(user, name) # Pass
       THEN /\ response' = Resp(ProfileUpdateDispatch(user, name), <<>>)
            /\ UNCHANGED users
       ELSE IF method = "GET"
       THEN /\ response' = Resp(Ok, <<>>)
            /\ UNCHANGED users
       ELSE \E object \in UserByUsername(name), data \in UserData :
            IF \E other \in Users \ {object} : users[other].username = data.username
            THEN /\ response' = Resp(Ok, <<>>)
                 /\ UNCHANGED users
            ELSE /\ users' = [users EXCEPT ![object] = data]
                 /\ response' = Resp(RedirectProfile, <<>>)
    /\ UNCHANGED <<posts, comments, seq, now>>

(* --------------------------- specifications ---------------------------- *)
InitialUsers ==
    [u \in Users |-> [username |-> IF u = "u1" THEN "ann" ELSE "bob",
                      first_name |-> "x", last_name |-> "x", email |-> "x"]]

\* The blog after migration: registered users, no posts, no comments.
Init ==
    /\ posts = <<>>
    /\ comments = <<>>
    /\ users = InitialUsers
    /\ seq = [post |-> 0, comment |-> 0]
    /\ now = 0
    /\ request = NoRequest
    /\ response = NoResponse

PostCreate == \E user \in Requesters, method \in Methods :
    PostCreateView(user, method)
PostUpdate == \E user \in Requesters, pk \in PostKeys, method \in Methods :
    PostUpdateView(user, pk, method)
PostDelete == \E user \in Requesters, pk \in PostKeys, method \in Methods :
    PostDeleteView(user, pk, method)
CommentCreate == \E user \in Requesters, pk \in PostKeys, method \in Methods :
    CommentCreateView(user, pk, method)
CommentUpdate == \E user \in Requesters, post_pk \in PostKeys, comment_pk \in CommentKeys,
                    method \in Methods :
    CommentUpdateView(user, post_pk, comment_pk, method)
CommentDelete == \E user \in Requesters, post_pk \in PostKeys, comment_pk \in CommentKeys,
                    method \in Methods :
    CommentDeleteView(user, post_pk, comment_pk, method)

Next == PostCreate \/ PostUpdate \/ PostDelete
        \/ CommentCreate \/ CommentUpdate \/ CommentDelete

Spec == Init /\ [][Next]_vars

(* One mutation request against any rows the blog can hold.  The mutation  *)
(* views read of a Post only its author and of a Comment its author and    *)
(* post, so the drawn posts differ in author and is_published and share    *)
(* one category and pub_date; the forms submitted carry any data.  The     *)
(* keys handed out so far (seq) are at least the keys in use.              *)
StoredPostRows == {r \in PostRows : r.category = NoCategory /\ r.pub_date = 0}

MaxKey(D) == IF D = {} THEN 0 ELSE CHOOSE k \in D : \A x \in D : x <= k

InitStep ==
    /\ posts \in UNION {[D -> StoredPostRows] : D \in SUBSET PostKeys}
    /\ comments \in UNION {[D -> {c \in CommentRows : c.post \in DOMAIN posts}] :
                              D \in SUBSET CommentKeys}
    /\ users = InitialUsers
    /\ seq \in {q \in [post : 0..MaxPosts, comment : 0..MaxComments] :
                   /\ q.post >= MaxKey(DOMAIN posts)
                   /\ q.comment >= MaxKey(DOMAIN comments)}
    /\ now = 0
    /\ request = NoRequest
    /\ response = NoResponse

NextStep ==
    \/ request = NoRequest /\ PostCreate
    \/ request = NoRequest /\ PostUpdate
    \/ request = NoRequest /\ PostDelete
    \/ request = NoRequest /\ CommentCreate
    \/ request = NoRequest /\ CommentUpdate
    \/ request = NoRequest /\ CommentDelete

SpecStep == InitStep /\ [][NextStep]_vars

(* Reads leave every row as it is: a read view is a function of the rows,  *)
(* the clock and the request.  SpecRead draws the rows and the clock from  *)
(* the stores the blog can hold and handles one read request against them. *)
PostStores == UNION {[D -> PostRows] : D \in SUBSET PostKeys}

InitRead ==
    /\ posts \in PostStores
    /\ comments = <<>>
    /\ users = InitialUsers
    /\ seq = [post |-> MaxPosts, comment |-> 0]
    /\ now \in Times
    /\ request = NoRequest
    /\ response = NoResponse

PostList == \E user \in Requesters : PostListView(user)
PostDetail == \E user \in Requesters, pk \in PostKeys : PostDetailView(user, pk)
CategoryList == \E user \in Requesters, slug \in Slugs : CategoryListView(user, slug)
Profile == \E user \in Requesters, name \in Usernames : ProfileView(user, name)

NextRead ==
    \/ request = NoRequest /\ PostList
    \/ request = NoRequest /\ PostDetail
    \/ request = NoRequest /\ CategoryList
    \/ request = NoRequest /\ Profile

SpecRead == InitRead /\ [][NextRead]_vars

(* Profile editing touches only the User rows. *)
ProfileUpdate == \E user \in Requesters, name \in Usernames, method \in Methods :
    ProfileUpdateView(user, name, method)

NextProfile == ProfileUpdate \/ Profile

SpecProfile == Init /\ [][NextProfile]_vars

(* ------------------------------ properties ----------------------------- *)
\* "Publicly visible": is_published, pub_date <= now, and the category is
\* null or published.
Visible(p) ==
    /\ p.is_published
    /\ p.pub_date <= now
    /\ (p.category = NoCategory \/ CategoryPublished(p.category))

ListViews == {"post_list", "category_posts", "profile"}
PostMutationViews == {"edit_post", "delete_post"}
CommentMutationViews == {"edit_comment", "delete_comment"}

\* C1: a post is returned by the public feed if and only if it is published,
\* its pub_date is not after now, and its category is null or published.
C1_FeedIffVisible ==
    request.view = "post_list" =>
        \A p \in DOMAIN posts : (p \in Range(response.body)) <=> Visible(posts[p])

\* C2: the single-post read of an existing post answers 200 exactly when the
\* requester is the post's author or the post is publicly visible, and 404
\* otherwise.
C2_DetailAuthorOrVisible ==
    (request.view = "post_detail" /\ request.pk \in DOMAIN posts) =>
        /\ response.status \in {Ok, NotFound}
        /\ response.status = Ok <=>
              (request.user = posts[request.pk].author \/ Visible(posts[request.pk]))

\* C2 witness: an author was shown their own post although it is not
\* publicly visible.
C2_Witness ==
    /\ request.view = "post_detail"
    /\ request.pk \in DOMAIN posts
    /\ request.user = posts[request.pk].author
    /\ ~Visible(posts[request.pk])
    /\ response.status = Ok

\* C3: a step changes or removes a Post only when the requester is its
\* author, and a Comment only when the requester is its author or the
\* comment's post is deleted by that post's author; an edit or delete
\* request by anyone but the target's author changes no row.
C3_OnlyAuthorMutates ==
    [][ /\ \A p \in DOMAIN posts :
              (p \notin DOMAIN posts' \/ posts'[p] # posts[p])
                  => request'.user = posts[p].author
        /\ \A c \in DOMAIN comments :
              (c \notin DOMAIN comments' \/ comments'[c] # comments[c])
                  => \/ request'.user = comments[c].author
                     \/ /\ request'.view = "delete_post"
                        /\ request'.pk = comments[c].post
                        /\ request'.user = posts[comments[c].post].author
        /\ (/\ request'.view \in PostMutationViews
            /\ request'.pk \in DOMAIN posts
            /\ request'.user # posts[request'.pk].author)
              => UNCHANGED <<posts, comments>>
        /\ (/\ request'.view \in CommentMutationViews
            /\ request'.comment_pk \in DOMAIN comments
            /\ request'.user # comments[request'.comment_pk].author)
              => UNCHANGED <<posts, comments>>
      ]_vars

\* C3 witness: an authenticated user who is not the author POSTed a delete
\* of an existing post and was refused.
C3_Witness ==
    /\ request.view = "delete_post"
    /\ request.method = "POST"
    /\ request.pk \in DOMAIN posts
    /\ request.user \in Users
    /\ request.user # posts[request.pk].author
    /\ response.status = Forbidden

\* The answers the four mutation paths give an authenticated requester who
\* is not the author of the target.
DenyPresentations ==
    UNION {
        {PostUpdateDispatch(u, p) : p \in {k \in DOMAIN posts : posts[k].author # u}}
        \cup {PostDeleteDispatch(u, p) : p \in {k \in DOMAIN posts : posts[k].author # u}}
        \cup {CommentDispatch(u, comments[c].post, c) :
                 c \in {k \in DOMAIN comments : comments[k].author # u}}
        : u \in Users}

\* C4: an authenticated non-author gets one and the same DENY presentation
\* on Post edit, Post delete, Comment edit and Comment delete: all redirect
\* to the detail view or all answer forbidden.
C4_UniformDeny ==
    \/ DenyPresentations \subseteq {RedirectDetail}
    \/ DenyPresentations \subseteq {Forbidden}

\* C5: an anonymous request to a creation or mutation entry point whose
\* target exists is answered with the redirect to login.
C5_AnonymousToLogin ==
    (/\ request.user = Anonymous
     /\ \/ request.view = "create_post"
        \/ request.view \in PostMutationViews \cup {"add_comment"}
              /\ request.pk \in DOMAIN posts
        \/ request.view \in CommentMutationViews
              /\ request.comment_pk \in DOMAIN comments
              /\ comments[request.comment_pk].post = request.pk
        \/ request.view = "edit_profile" /\ UserByUsername(request.name) # {})
    => response.status = RedirectLogin

\* C6: a comment edit or delete request resolves to a comment only if both
\* the comment id and the parent post id of the path match it; when the
\* comment id exists but the post id is not that comment's post the answer
\* is 404, whoever asks, and no comment changes.
C6_CompoundKey ==
    [][ request'.view \in CommentMutationViews =>
          /\ response'.status # NotFound =>
                /\ request'.comment_pk \in DOMAIN comments
                /\ comments[request'.comment_pk].post = request'.pk
          /\ (/\ request'.comment_pk \in DOMAIN comments
              /\ comments[request'.comment_pk].post # request'.pk)
                => /\ response'.status = NotFound
                   /\ UNCHANGED comments
      ]_vars

\* C6 witness: the comment's own author asked for it under another existing
\* post's id and got 404.
C6_Witness ==
    /\ request.view \in CommentMutationViews
    /\ request.method = "POST"
    /\ request.comment_pk \in DOMAIN comments
    /\ request.user = comments[request.comment_pk].author
    /\ request.pk \in DOMAIN posts
    /\ request.pk # comments[request.comment_pk].post
    /\ response.status = NotFound

\* C7: no list view (feed, category page, profile page) lists a post that
\* is not publicly visible to a requester who is not its author.
C7_ListsOnlyVisible ==
    (request.view \in ListViews /\ response.status = Ok) =>
        \A p \in Range(response.body) :
            Visible(posts[p]) \/ request.user = posts[p].author

\* C8: for a requester who is not the author, a post that exists but is not
\* publicly visible gets the same answer, 404, as a post id that does not
\* exist, on post detail, post edit, post delete and add comment.
C8_HiddenAsAbsent ==
    \A u \in Requesters, p \in DOMAIN posts :
        (u # posts[p].author /\ ~Visible(posts[p])) =>
            /\ PostDetailDispatch(u, p) = NotFound
            /\ PostUpdateDispatch(u, p) = NotFound
            /\ PostDeleteDispatch(u, p) = NotFound
            /\ CommentCreateDispatch(u, p) = NotFound
            /\ \A q \in PostKeys \ DOMAIN posts :
                  /\ PostDetailDispatch(u, p) = PostDetailDispatch(u, q)
                  /\ PostUpdateDispatch(u, p) = PostUpdateDispatch(u, q)
                  /\ PostDeleteDispatch(u, p) = PostDeleteDispatch(u, q)
                  /\ CommentCreateDispatch(u, p) = CommentCreateDispatch(u, q)

\* C9: every list comes back ordered by pub_date descending and, among
\* equal pub_dates, by primary key ascending.
C9_DeterministicOrder ==
    (request.view \in ListViews /\ response.status = Ok) =>
        \A i, j \in DOMAIN response.body :
            i < j =>
                \/ posts[response.body[i]].pub_date > posts[response.body[j]].pub_date
                \/ /\ posts[response.body[i]].pub_date = posts[response.body[j]].pub_date
                   /\ response.body[i] < response.body[j]

\* C10: a profile-edit request changes a User row only when the requester
\* is that user.
C10_OnlySelfEditsProfile ==
    [][ request'.view = "edit_profile" =>
          \A u \in Users : users'[u] # users[u] => request'.user = u ]_vars

====
